---- MODULE Spec2Model ----
(***************************************************************************)
(* Model of backend/agent.py: the TranscriptManager (transcript            *)
(* aggregation and deduplication) and the multi-provider chat adapters.    *)
(*                                                                         *)
(* Python strings are sequences of one-character strings; time.monotonic() *)
(* is the integer variable clock, in seconds.                              *)
(***************************************************************************)
EXTENDS Integers, Sequences, FiniteSets, TLC

\* Bounds of the model.
MaxTime == 6
MaxTasks == 1
MaxBlocks == 2
MaxBuffer == 2
MaxLen == 4
MaxDepth == 2

\* TranscriptManager.DEDUPE_WINDOW_SECONDS
DEDUPE_WINDOW_SECONDS == 5

VARIABLES
    session_id,            \* TranscriptManager._session_id
    recent_turns,          \* TranscriptManager._recent_turns: speaker -> (phrase -> ts)
    pending_user_partial,  \* TranscriptManager._pending_user_partial
    tasks,                 \* save_turn tasks created by asyncio.create_task, not yet started
    clock,                 \* time.monotonic()
    saved_at,              \* history: speaker -> (text -> clock of the last create_task)
    last,                  \* history: the last handler call and what it did
    partial_at,            \* history: clock of the non-final chunk just handled, if any
    buffer,                \* AssistantTranscriptSink._buffer
    anthropic_client,      \* module-level anthropic_client is configured
    GEMINI_API_KEY,        \* module-level GEMINI_API_KEY is set
    pc,                    \* where the adapter call of the chat stream stands
    provider,              \* ExternalLLM._provider of the call
    model_key,             \* ExternalLLM._model_key of the call
    candidates,            \* anthropic_chat_stream: candidates
    idx,                   \* anthropic_chat_stream: idx of the for loop
    attempts,              \* history: the requests issued and how each ended
    to_yield,              \* chunks the adapter generator has still to yield
    event_ch,              \* ExternalLLMStream._event_ch: chunks sent to the consumer
    error,                 \* the exception the call raised to its caller
    requested              \* history: the identifier create_hybrid_llm was given

tmvars == <<session_id, recent_turns, pending_user_partial, tasks, clock, saved_at, last,
            partial_at, buffer>>

chatvars == <<anthropic_client, GEMINI_API_KEY, pc, provider, model_key, candidates,
              idx, attempts, to_yield, event_ch, error, requested>>

vars == <<tmvars, chatvars>>

----------------------------------------------------------------------------
(* Python values reaching the handlers *)

None == [kind |-> "none"]
Str(s) == [kind |-> "str", s |-> s]
List(items) == [kind |-> "list", items |-> items]
Dict(d) == [kind |-> "dict", d |-> d]
Obj(attrs, repr) == [kind |-> "obj", attrs |-> attrs, repr |-> repr]

\* bool(value)
Truthy(v) ==
    CASE v.kind = "none" -> FALSE
      [] v.kind = "str"  -> v.s # <<>>
      [] v.kind = "list" -> v.items # <<>>
      [] v.kind = "dict" -> DOMAIN v.d # {}
      [] OTHER -> TRUE

\* hasattr(value, name)
HasAttr(v, name) == v.kind = "obj" /\ name \in DOMAIN v.attrs

\* getattr(value, name, None)
GetAttr(v, name) == IF HasAttr(v, name) THEN v.attrs[name] ELSE None

----------------------------------------------------------------------------
(* str.strip(), str.split() and str.join() *)

IsSpace(c) == c \in {" ", "\n", "\t"}

RECURSIVE LStrip(_)
LStrip(s) == IF s # <<>> /\ IsSpace(Head(s)) THEN LStrip(Tail(s)) ELSE s

RECURSIVE RStrip(_)
RStrip(s) ==
    IF s # <<>> /\ IsSpace(s[Len(s)]) THEN RStrip(SubSeq(s, 1, Len(s) - 1)) ELSE s

Strip(s) == RStrip(LStrip(s))

\* str.split() with no separator: the maximal runs of non-whitespace characters.
RECURSIVE SplitFrom(_, _, _)
SplitFrom(s, word, words) ==
    IF s = <<>>
    THEN IF word = <<>> THEN words ELSE Append(words, word)
    ELSE IF IsSpace(Head(s))
         THEN SplitFrom(Tail(s), <<>>, IF word = <<>> THEN words ELSE Append(words, word))
         ELSE SplitFrom(Tail(s), Append(word, Head(s)), words)

Split(s) == SplitFrom(s, <<>>, <<>>)

\* sep.join(parts)
RECURSIVE Join(_, _)
Join(sep, parts) ==
    IF parts = <<>> THEN <<>>
    ELSE IF Len(parts) = 1 THEN parts[1]
    ELSE parts[1] \o sep \o Join(sep, Tail(parts))

NonEmpty(s) == s # <<>>

----------------------------------------------------------------------------
(* TranscriptManager._flatten_text and _normalize_text *)

\* the keys of a dict tried in the order of the attributes
DictKeys_attr_order == <<"text", "transcript", "value", "content">>

DictKeys == <<"text", "transcript", "content", "value">>
AttrNames == <<"text", "transcript", "value", "content">>

RECURSIVE _flatten_text(_)
RECURSIVE FlattenDict(_, _)
RECURSIVE FlattenAttrs(_, _)

\* for key in ('text', 'transcript', 'content', 'value'): first present, truthy
\* value that flattens to non-empty text
FlattenDict(d, i) ==
    IF i > Len(DictKeys) THEN <<>>
    ELSE IF DictKeys[i] \in DOMAIN d /\ Truthy(d[DictKeys[i]])
            /\ _flatten_text(d[DictKeys[i]]) # <<>>
         THEN _flatten_text(d[DictKeys[i]])
         ELSE FlattenDict(d, i + 1)

\* for attr in ('text', 'transcript', 'value', 'content'): first attribute that
\* flattens to non-empty text; otherwise str(value)
FlattenAttrs(value, i) ==
    IF i > Len(AttrNames)
    THEN IF value.kind = "str" THEN value.s ELSE value.repr
    ELSE IF HasAttr(value, AttrNames[i]) /\ _flatten_text(value.attrs[AttrNames[i]]) # <<>>
         THEN _flatten_text(value.attrs[AttrNames[i]])
         ELSE FlattenAttrs(value, i + 1)

_flatten_text(value) ==
    IF value.kind = "none" THEN <<>>
    ELSE IF HasAttr(value, "text_content") /\ Truthy(value.attrs["text_content"])
    THEN value.attrs["text_content"].s
    ELSE IF value.kind = "list"
    THEN Join(<<" ">>,
              SelectSeq([i \in 1..Len(value.items) |-> _flatten_text(value.items[i])],
                        NonEmpty))
    ELSE IF value.kind = "dict" THEN FlattenDict(value.d, 1)
    ELSE FlattenAttrs(value, 1)

\* _normalize_text keeping the whitespace inside the text
_normalize_text_strip_only(text) ==
    LET flattened == _flatten_text(text)
    IN  IF flattened = <<>> THEN <<>>
        ELSE Strip(flattened)

_normalize_text(text) ==
    LET flattened == _flatten_text(text)
    IN  IF flattened = <<>> THEN <<>>
        ELSE Join(<<" ">>, Split(Strip(flattened)))

----------------------------------------------------------------------------
(* The inputs the session host delivers *)

A == <<"a">>
AB == <<"a", " ", "b">>

\* event.transcript of user_input_transcribed
ChunkInputs ==
    { Str(<<" ">>), Str(<<" ", "a", "\n">>), Str(<<"a", " ", " ", "b">>) }

\* a ChatMessage-like object: role, text_content and content attributes
Message(role, text_content, content) ==
    Obj([role |-> role, text_content |-> text_content, content |-> content],
        <<"<", "m", ">">>)

\* the argument of handle_user_final_text
UserFinalInputs ==
    { None, Str(<<" ">>), Str(<<"a", " ">>),
      Message(Str(<<"user">>), Str(AB), List(<<Str(AB)>>)) }

\* the argument of handle_assistant_text
AssistantInputs ==
    { Str(<<" ">>),
      Message(Str(<<"assistant">>), Str(A), List(<<Str(A)>>)) }

\* the argument of handle_conversation_item
ItemInputs ==
    { None,
      Message(Str(<<"system">>), Str(A), List(<<Str(A)>>)),
      Message(Str(<<"user">>), Str(A), List(<<Str(A)>>)),
      Message(Str(<<"user">>), None, List(<<Str(<<" ", "a">>), Str(<<"b">>)>>)),
      Message(Str(<<"assistant">>), Str(<<"a", "\n">>), List(<<>>)) }

\* The instants of the monotonic clock at which callbacks are observed.
Instants == {0, 1, 3, MaxTime}

Speakers == {"user", "assistant"}

SessionIds == { None, Str(<<>>), Str(<<"s", "1">>) }

----------------------------------------------------------------------------
(* TranscriptManager *)

\* _is_duplicate leaving expired entries in the cache
_is_duplicate_no_purge(cache, text, now) ==
    IF /\ text \in DOMAIN cache
       /\ cache[text] # 0
       /\ now - cache[text] < DEDUPE_WINDOW_SECONDS
    THEN [ret |-> TRUE, cache |-> cache]
    ELSE [ret |-> FALSE,
          cache |-> [phrase \in DOMAIN cache \cup {text} |->
                       IF phrase = text THEN now ELSE cache[phrase]]]

\* TranscriptManager._is_duplicate on one speaker's cache at time now: the
\* returned flag and the cache it leaves.
_is_duplicate(cache, text, now) ==
    LET expired == { phrase \in DOMAIN cache :
                       now - cache[phrase] > DEDUPE_WINDOW_SECONDS }
        kept == [phrase \in DOMAIN cache \ expired |-> cache[phrase]]
    IN  IF /\ text \in DOMAIN kept
           /\ kept[text] # 0
           /\ now - kept[text] < DEDUPE_WINDOW_SECONDS
        THEN [ret |-> TRUE, cache |-> kept]
        ELSE [ret |-> FALSE,
              cache |-> [phrase \in DOMAIN kept \cup {text} |->
                           IF phrase = text THEN now ELSE kept[phrase]]]

NoEntry == -1

At(f, text) == IF text \in DOMAIN f THEN f[text] ELSE NoEntry

\* _maybe_save_turn without its session check
_maybe_save_turn_no_session_check(speaker, text) ==
    IF text = <<>>
    THEN UNCHANGED <<recent_turns, tasks, saved_at>>
    ELSE LET r == _is_duplicate(recent_turns[speaker], text, clock)
         IN  /\ recent_turns' = [recent_turns EXCEPT ![speaker] = r.cache]
             /\ IF r.ret
                THEN UNCHANGED <<tasks, saved_at>>
                ELSE /\ tasks' = Append(tasks, [session_id |-> session_id,
                                                speaker |-> speaker, text |-> text])
                     /\ saved_at' = [saved_at EXCEPT ![speaker] =
                                       [t \in DOMAIN @ \cup {text} |->
                                          IF t = text THEN clock ELSE @[t]]]

\* _maybe_save_turn checking every speaker's text against one cache
_maybe_save_turn_shared_cache(speaker, text) ==
    IF ~Truthy(session_id) \/ text = <<>>
    THEN UNCHANGED <<recent_turns, tasks, saved_at>>
    ELSE LET r == _is_duplicate(recent_turns["user"], text, clock)
         IN  /\ recent_turns' = [recent_turns EXCEPT !["user"] = r.cache]
             /\ IF r.ret
                THEN UNCHANGED <<tasks, saved_at>>
                ELSE /\ tasks' = Append(tasks, [session_id |-> session_id,
                                                speaker |-> speaker, text |-> text])
                     /\ saved_at' = [saved_at EXCEPT ![speaker] =
                                       [t \in DOMAIN @ \cup {text} |->
                                          IF t = text THEN clock ELSE @[t]]]

\* TranscriptManager._maybe_save_turn
_maybe_save_turn(speaker, text) ==
    IF ~Truthy(session_id) \/ text = <<>>
    THEN UNCHANGED <<recent_turns, tasks, saved_at>>
    ELSE LET r == _is_duplicate(recent_turns[speaker], text, clock)
         IN  /\ recent_turns' = [recent_turns EXCEPT ![speaker] = r.cache]
             /\ IF r.ret
                THEN UNCHANGED <<tasks, saved_at>>
                ELSE /\ tasks' = Append(tasks, [session_id |-> session_id,
                                                speaker |-> speaker, text |-> text])
                     /\ saved_at' = [saved_at EXCEPT ![speaker] =
                                       [t \in DOMAIN @ \cup {text} |->
                                          IF t = text THEN clock ELSE @[t]]]

NoCall == <<"-">>

\* The record of a handler call: its normalized input, the held partial before
\* it, the text it handed to _maybe_save_turn (NoCall when it did not call it),
\* whether a save_turn task was created, whether a dedup cache changed, and when
\* that text was last saved before.
Called(op, speaker, normalized, is_final, gate_text) ==
    [op |-> op, speaker |-> speaker, normalized |-> normalized,
     is_final |-> is_final, partial_before |-> pending_user_partial,
     gate_text |-> gate_text,
     saved |-> Len(tasks') > Len(tasks),
     cache_changed |-> recent_turns' # recent_turns,
     prev |-> IF gate_text = NoCall THEN NoEntry ELSE At(saved_at[speaker], gate_text),
     since |-> partial_at, posts |-> 0, outcome |-> "-", raised |-> FALSE,
     item |-> None, result |-> None]

Idle(op) ==
    [op |-> op, speaker |-> "-", normalized |-> <<>>, is_final |-> FALSE,
     partial_before |-> None, gate_text |-> NoCall, saved |-> FALSE,
     cache_changed |-> FALSE, prev |-> NoEntry, since |-> NoEntry,
     posts |-> 0, outcome |-> "-", raised |-> FALSE, item |-> None,
     result |-> None]

\* handle_user_transcript_chunk saving non-final chunks as well
handle_user_transcript_chunk_saves_partial(transcript, is_final) ==
    LET normalized == _normalize_text(transcript)
    IN  IF normalized = <<>>
        THEN /\ UNCHANGED <<recent_turns, tasks, saved_at, pending_user_partial>>
             /\ last' = Called("chunk", "user", normalized, is_final, NoCall)
        ELSE /\ _maybe_save_turn("user", normalized)
             /\ pending_user_partial' = IF is_final THEN None ELSE Str(normalized)
             /\ last' = Called("chunk", "user", normalized, is_final, normalized)

\* handle_user_transcript_chunk clearing the held partial only when the final
\* chunk was saved
handle_user_transcript_chunk_keeps_partial(transcript, is_final) ==
    LET normalized == _normalize_text(transcript)
    IN  IF normalized = <<>>
        THEN /\ UNCHANGED <<recent_turns, tasks, saved_at, pending_user_partial>>
             /\ last' = Called("chunk", "user", normalized, is_final, NoCall)
        ELSE IF is_final
        THEN /\ _maybe_save_turn("user", normalized)
             /\ pending_user_partial' =
                    IF Len(tasks') > Len(tasks) THEN None ELSE Str(normalized)
             /\ last' = Called("chunk", "user", normalized, is_final, normalized)
        ELSE /\ pending_user_partial' = Str(normalized)
             /\ UNCHANGED <<recent_turns, tasks, saved_at>>
             /\ last' = Called("chunk", "user", normalized, is_final, NoCall)

\* handle_user_transcript_chunk adding a new partial to the held one
handle_user_transcript_chunk_appends_partial(transcript, is_final) ==
    LET normalized == _normalize_text(transcript)
    IN  IF normalized = <<>>
        THEN /\ UNCHANGED <<recent_turns, tasks, saved_at, pending_user_partial>>
             /\ last' = Called("chunk", "user", normalized, is_final, NoCall)
        ELSE IF is_final
        THEN /\ _maybe_save_turn("user", normalized)
             /\ pending_user_partial' = None
             /\ last' = Called("chunk", "user", normalized, is_final, normalized)
        ELSE /\ pending_user_partial' =
                    IF Truthy(pending_user_partial)
                    THEN Str(pending_user_partial.s \o <<" ">> \o normalized)
                    ELSE Str(normalized)
             /\ UNCHANGED <<recent_turns, tasks, saved_at>>
             /\ last' = Called("chunk", "user", normalized, is_final, NoCall)

\* handle_user_transcript_chunk handing the held partial, when there is one,
\* to the gate in place of the text of the final chunk
handle_user_transcript_chunk_final_saves_partial(transcript, is_final) ==
    LET normalized == _normalize_text(transcript)
        chosen == IF Truthy(pending_user_partial) THEN pending_user_partial.s
                  ELSE normalized
    IN  IF normalized = <<>>
        THEN /\ UNCHANGED <<recent_turns, tasks, saved_at, pending_user_partial>>
             /\ last' = Called("chunk", "user", normalized, is_final, NoCall)
        ELSE IF is_final
        THEN /\ _maybe_save_turn("user", chosen)
             /\ pending_user_partial' = None
             /\ last' = Called("chunk", "user", normalized, is_final, chosen)
        ELSE /\ pending_user_partial' = Str(normalized)
             /\ UNCHANGED <<recent_turns, tasks, saved_at>>
             /\ last' = Called("chunk", "user", normalized, is_final, NoCall)

\* TranscriptManager.handle_user_transcript_chunk
handle_user_transcript_chunk(transcript, is_final) ==
    LET normalized == _normalize_text(transcript)
    IN  IF normalized = <<>>
        THEN /\ UNCHANGED <<recent_turns, tasks, saved_at, pending_user_partial>>
             /\ last' = Called("chunk", "user", normalized, is_final, NoCall)
        ELSE IF is_final
        THEN /\ _maybe_save_turn("user", normalized)
             /\ pending_user_partial' = None
             /\ last' = Called("chunk", "user", normalized, is_final, normalized)
        ELSE /\ pending_user_partial' = Str(normalized)
             /\ UNCHANGED <<recent_turns, tasks, saved_at>>
             /\ last' = Called("chunk", "user", normalized, is_final, NoCall)

\* handle_user_final_text without the fallback to the held partial
handle_user_final_text_no_fallback(text) ==
    LET n == _normalize_text(text)
    IN  IF n # <<>>
        THEN /\ _maybe_save_turn("user", n)
             /\ pending_user_partial' = None
             /\ last' = Called("final_text", "user", n, TRUE, n)
        ELSE /\ UNCHANGED <<recent_turns, tasks, saved_at>>
             /\ pending_user_partial' = None
             /\ last' = Called("final_text", "user", n, TRUE, NoCall)

\* TranscriptManager.handle_user_final_text
handle_user_final_text(text) ==
    LET n == _normalize_text(text)
        normalized == IF n # <<>> THEN Str(n) ELSE pending_user_partial
    IN  IF Truthy(normalized)
        THEN /\ _maybe_save_turn("user", normalized.s)
             /\ pending_user_partial' = None
             /\ last' = Called("final_text", "user", n, TRUE, normalized.s)
        ELSE /\ UNCHANGED <<recent_turns, tasks, saved_at, pending_user_partial>>
             /\ last' = Called("final_text", "user", n, TRUE, NoCall)

\* TranscriptManager.handle_assistant_text
handle_assistant_text(text) ==
    LET normalized == _normalize_text(text)
    IN  /\ IF normalized # <<>>
           THEN _maybe_save_turn("assistant", normalized)
           ELSE UNCHANGED <<recent_turns, tasks, saved_at>>
        /\ UNCHANGED pending_user_partial
        /\ last' = Called("assistant_text", "assistant", normalized, TRUE,
                          IF normalized # <<>> THEN normalized ELSE NoCall)

RoleName(role) ==
    IF role = Str(<<"user">>) THEN "user"
    ELSE IF role = Str(<<"assistant">>) THEN "assistant"
    ELSE "-"

\* handle_conversation_item reading the generic content field only
handle_conversation_item_content_only(message) ==
    LET role == GetAttr(message, "role")
        content == GetAttr(message, "content")
        normalized == _normalize_text(content)
    IN  /\ UNCHANGED pending_user_partial
        /\ IF ~Truthy(message) \/ RoleName(role) = "-"
           THEN /\ UNCHANGED <<recent_turns, tasks, saved_at>>
                /\ last' = [Called("conversation_item", "-", <<>>, TRUE, NoCall)
                             EXCEPT !.item = message]
           ELSE /\ IF normalized # <<>>
                   THEN _maybe_save_turn(RoleName(role), normalized)
                   ELSE UNCHANGED <<recent_turns, tasks, saved_at>>
                /\ last' = [Called("conversation_item", RoleName(role), normalized, TRUE,
                                   IF normalized # <<>> THEN normalized ELSE NoCall)
                             EXCEPT !.item = message]


\* handle_conversation_item taking an item of the user for the end of the
\* user's turn and dropping the held partial
handle_conversation_item_clears_partial(message) ==
    LET role == GetAttr(message, "role")
        text_content == GetAttr(message, "text_content")
        content == IF Truthy(text_content) THEN text_content
                   ELSE GetAttr(message, "content")
        normalized == _normalize_text(content)
    IN  IF ~Truthy(message) \/ RoleName(role) = "-"
        THEN /\ UNCHANGED <<recent_turns, tasks, saved_at, pending_user_partial>>
             /\ last' = [Called("conversation_item", "-", <<>>, TRUE, NoCall)
                          EXCEPT !.item = message]
        ELSE /\ IF normalized # <<>>
                THEN _maybe_save_turn(RoleName(role), normalized)
                ELSE UNCHANGED <<recent_turns, tasks, saved_at>>
             /\ pending_user_partial' =
                    IF RoleName(role) = "user" THEN None ELSE pending_user_partial
             /\ last' = [Called("conversation_item", RoleName(role), normalized, TRUE,
                                IF normalized # <<>> THEN normalized ELSE NoCall)
                          EXCEPT !.item = message]

\* TranscriptManager.handle_conversation_item
handle_conversation_item(message) ==
    LET role == GetAttr(message, "role")
        text_content == GetAttr(message, "text_content")
        content == IF Truthy(text_content) THEN text_content
                   ELSE GetAttr(message, "content")
        normalized == _normalize_text(content)
    IN  /\ UNCHANGED pending_user_partial
        /\ IF ~Truthy(message) \/ RoleName(role) = "-"
           THEN /\ UNCHANGED <<recent_turns, tasks, saved_at>>
                /\ last' = [Called("conversation_item", "-", <<>>, TRUE, NoCall)
                             EXCEPT !.item = message]
           ELSE /\ IF normalized # <<>>
                   THEN _maybe_save_turn(RoleName(role), normalized)
                   ELSE UNCHANGED <<recent_turns, tasks, saved_at>>
                /\ last' = [Called("conversation_item", RoleName(role), normalized, TRUE,
                                   IF normalized # <<>> THEN normalized ELSE NoCall)
                             EXCEPT !.item = message]

----------------------------------------------------------------------------
(* The session host's callbacks, the clock and the event loop *)

\* on_user_transcribed
OnUserTranscribed ==
    \E transcript \in ChunkInputs, is_final \in BOOLEAN :
        /\ handle_user_transcript_chunk(transcript, is_final)
        /\ partial_at' = IF ~is_final /\ _normalize_text(transcript) # <<>>
                         THEN clock ELSE NoEntry
        /\ Len(tasks') <= MaxTasks
        /\ UNCHANGED <<session_id, clock, buffer>>
        /\ UNCHANGED chatvars

\* on_user_speech: "if msg:" guards the handler
OnUserSpeech ==
    \E msg \in UserFinalInputs :
        /\ Truthy(msg)
        /\ handle_user_final_text(msg)
        /\ partial_at' = NoEntry
        /\ Len(tasks') <= MaxTasks
        /\ UNCHANGED <<session_id, clock, buffer>>
        /\ UNCHANGED chatvars

\* on_agent_speech: "if msg:" guards the handler
OnAgentSpeech ==
    \E msg \in AssistantInputs :
        /\ Truthy(msg)
        /\ handle_assistant_text(msg)
        /\ partial_at' = NoEntry
        /\ Len(tasks') <= MaxTasks
        /\ UNCHANGED <<session_id, clock, buffer>>
        /\ UNCHANGED chatvars

\* on_conversation_item
OnConversationItem ==
    \E message \in ItemInputs :
        /\ handle_conversation_item(message)
        /\ partial_at' = NoEntry
        /\ Len(tasks') <= MaxTasks
        /\ UNCHANGED <<session_id, clock, buffer>>
        /\ UNCHANGED chatvars

\* time.monotonic() advances between callbacks
Tick ==
    /\ \E t \in Instants :
          /\ t > clock
          /\ \A u \in Instants : u > clock => t <= u
          /\ clock' = t
    /\ last' = Idle("tick")
    /\ UNCHANGED <<session_id, recent_turns, pending_user_partial, tasks, saved_at,
                   partial_at, buffer>>
    /\ UNCHANGED chatvars

\* what the backend answers to the POST of save_turn, or how the POST fails
PostOutcomes == {"201", "500", "timeout", "error"}

\* save_turn repeating a POST that did not return 201
save_turn_retries(session_id_, text, outcome) ==
    IF ~Truthy(session_id_) \/ Strip(text) = <<>>
    THEN [posts |-> 0, outcome |-> "skipped", raised |-> FALSE]
    ELSE [posts |-> IF outcome = "201" THEN 1 ELSE 2, outcome |-> outcome, raised |-> FALSE]

\* save_turn: the POSTs it makes and whether an exception leaves it
save_turn(session_id_, text, outcome) ==
    IF ~Truthy(session_id_) \/ Strip(text) = <<>>
    THEN [posts |-> 0, outcome |-> "skipped", raised |-> FALSE]
    ELSE [posts |-> 1, outcome |-> outcome, raised |-> FALSE]

\* the event loop runs the oldest save_turn task created by asyncio.create_task
StartTasks ==
    /\ tasks # <<>>
    /\ \E outcome \in PostOutcomes :
          LET task == Head(tasks)
              run == save_turn(task.session_id, task.text, outcome)
          IN  last' = [Idle("save_turn") EXCEPT !.speaker = task.speaker,
                                                !.gate_text = task.text,
                                                !.posts = run.posts,
                                                !.outcome = run.outcome,
                                                !.raised = run.raised]
    /\ tasks' = Tail(tasks)
    /\ UNCHANGED <<session_id, recent_turns, pending_user_partial, clock, saved_at,
                   partial_at, buffer>>
    /\ UNCHANGED chatvars

\* the text chunks the TTS pipeline hands to AssistantTranscriptSink.capture_text
SinkChunks == { <<>>, <<" ">>, <<"a">> }

\* AssistantTranscriptSink.capture_text
CaptureText ==
    /\ \E text \in SinkChunks :
          /\ text # <<>>
          /\ Len(buffer) < MaxBuffer
          /\ buffer' = Append(buffer, text)
    /\ last' = Idle("capture_text")
    /\ UNCHANGED <<session_id, recent_turns, pending_user_partial, tasks, clock, saved_at,
                   partial_at>>
    /\ UNCHANGED chatvars

\* AssistantTranscriptSink.flush
Flush ==
    /\ IF buffer = <<>>
       THEN /\ last' = Idle("flush")
            /\ UNCHANGED <<recent_turns, pending_user_partial, tasks, saved_at, buffer>>
       ELSE LET combined == Strip(Join(<<>>, buffer))
            IN  /\ buffer' = <<>>
                /\ IF combined # <<>>
                   THEN handle_assistant_text(Str(combined))
                   ELSE /\ last' = Idle("flush")
                        /\ UNCHANGED <<recent_turns, pending_user_partial, tasks, saved_at>>
    /\ partial_at' = NoEntry
    /\ Len(tasks') <= MaxTasks
    /\ UNCHANGED <<session_id, clock>>
    /\ UNCHANGED chatvars

\* TranscriptManager.__init__ and AssistantTranscriptSink.__init__
TranscriptManagerInit(ids) ==
    /\ session_id \in ids
    /\ recent_turns = [s \in Speakers |-> <<>>]
    /\ pending_user_partial = None
    /\ tasks = <<>>
    /\ clock = 0
    /\ saved_at = [s \in Speakers |-> <<>>]
    /\ last = Idle("init")
    /\ partial_at = NoEntry
    /\ buffer = <<>>

----------------------------------------------------------------------------
(* Model identifiers and the provider router.  An identifier is a string of *)
(* tokens; the token "/" ends the provider prefix.                          *)

DEFAULT_OPENAI_CHAT_MODEL == <<"gpt-5.1-nano">>

SONNET == <<"claude-sonnet-4-5">>
HAIKU == <<"claude-haiku-4-5">>

ANTHROPIC_MODEL_CANDIDATES ==
    [k \in {SONNET, HAIKU} |->
        IF k = SONNET
        THEN << <<"claude-3-5-sonnet-20241022">>, <<"claude-3-opus-20240229">> >>
        ELSE << <<"claude-3-5-haiku-20241022">>, <<"claude-3-haiku-20240307">> >>]

GEMINI_PRO == <<"google", "/", "gemini-2.5-pro">>
GEMINI_FLASH == <<"google", "/", "gemini-2.5-flash">>
GEMINI_FLASH_LITE == <<"google", "/", "gemini-2.5-flash-lite">>

GOOGLE_MODEL_MAP ==
    [k \in {GEMINI_PRO, GEMINI_FLASH, GEMINI_FLASH_LITE} |->
        IF k = GEMINI_PRO THEN <<"models", "/", "gemini-2.5-pro">>
        ELSE IF k = GEMINI_FLASH THEN <<"models", "/", "gemini-2.5-flash">>
        ELSE <<"models", "/", "gemini-2.5-flash-lite-preview-06-17">>]

\* str.startswith(prefix)
StartsWith(s, prefix) ==
    Len(s) >= Len(prefix) /\ SubSeq(s, 1, Len(prefix)) = prefix

\* resolve_openai_chat_model passing an unsupported identifier on as it is
resolve_openai_chat_model_no_default(model) ==
    LET normalized == IF Truthy(model) THEN Strip(model.s) ELSE <<>>
    IN  IF normalized = <<>> THEN DEFAULT_OPENAI_CHAT_MODEL
        ELSE IF StartsWith(normalized, <<"openai", "/">>)
             THEN SubSeq(normalized, 3, Len(normalized))
             ELSE normalized

\* resolve_openai_chat_model
resolve_openai_chat_model(model) ==
    LET normalized == IF Truthy(model) THEN Strip(model.s) ELSE <<>>
    IN  IF normalized = <<>> THEN DEFAULT_OPENAI_CHAT_MODEL
        ELSE IF StartsWith(normalized, <<"openai", "/">>)
             THEN SubSeq(normalized, 3, Len(normalized))
             ELSE DEFAULT_OPENAI_CHAT_MODEL

\* infer_model_provider taking any provider prefix for the provider
infer_model_provider_by_prefix(model) ==
    IF ~Truthy(model) THEN "openai"
    ELSE IF StartsWith(model.s, <<"openai", "/">>) THEN "openai"
    ELSE IF model.s \in DOMAIN ANTHROPIC_MODEL_CANDIDATES
            \/ StartsWith(model.s, <<"anthropic", "/">>) THEN "anthropic"
    ELSE IF model.s \in DOMAIN GOOGLE_MODEL_MAP
            \/ StartsWith(model.s, <<"google", "/">>) THEN "google"
    ELSE "openai"

\* infer_model_provider
infer_model_provider(model) ==
    IF ~Truthy(model) THEN "openai"
    ELSE IF StartsWith(model.s, <<"openai", "/">>) THEN "openai"
    ELSE IF model.s \in DOMAIN ANTHROPIC_MODEL_CANDIDATES THEN "anthropic"
    ELSE IF model.s \in DOMAIN GOOGLE_MODEL_MAP THEN "google"
    ELSE "openai"

\* create_hybrid_llm returning the alternate adapter whatever the credentials
create_hybrid_llm_no_credential_check(model) ==
    LET p == infer_model_provider(model)
    IN  IF p = "anthropic"
        THEN [provider |-> "anthropic",
              model_key |-> IF Truthy(model) THEN model.s ELSE SONNET]
        ELSE IF p = "google"
        THEN [provider |-> "google",
              model_key |-> IF Truthy(model) THEN model.s ELSE GEMINI_FLASH_LITE]
        ELSE [provider |-> "openai", model_key |-> resolve_openai_chat_model(model)]

\* create_hybrid_llm: the provider and model key of the LLM it returns
create_hybrid_llm(model) ==
    LET p == infer_model_provider(model)
    IN  IF p = "anthropic" /\ anthropic_client
        THEN [provider |-> "anthropic",
              model_key |-> IF Truthy(model) THEN model.s ELSE SONNET]
        ELSE IF p = "google" /\ GEMINI_API_KEY
        THEN [provider |-> "google",
              model_key |-> IF Truthy(model) THEN model.s ELSE GEMINI_FLASH_LITE]
        ELSE [provider |-> "openai", model_key |-> resolve_openai_chat_model(model)]

\* the model identifiers a session asks for
ModelIds ==
    { None, Str(<<>>), Str(SONNET), Str(HAIKU), Str(GEMINI_PRO), Str(GEMINI_FLASH_LITE),
      Str(<<"google", "/", "gemini-1.0">>), Str(<<"openai", "/", "gpt-4o">>),
      Str(<<"claude-3-opus-20240229">>), Str(<<" ">>),
      Str(<<" ", "openai", "/", "gpt-4o", " ">>),
      Str(<<"anthropic", "/", "claude-sonnet-4-5">>) }

----------------------------------------------------------------------------
(* Chat chunks, errors and the remote services' answers *)

NoStatus == -1

NoError == [class |-> "none", status_code |-> NoStatus, retryable |-> FALSE]

\* livekit APIConnectionError(retryable=...)
APIConnectionError(retryable) ==
    [class |-> "APIConnectionError", status_code |-> NoStatus, retryable |-> retryable]

\* an exception the adapter lets through as it is (aiohttp, json): it carries
\* no retryable classification
Unclassified(class) ==
    [class |-> class, status_code |-> NoStatus, retryable |-> FALSE]

NoUsage == [prompt |-> 0, completion |-> 0, total |-> 0]

TextChunk(id, content) ==
    [id |-> id, suffix |-> "", kind |-> "text", content |-> content,
     tool_calls |-> <<>>, usage |-> NoUsage]

ToolChunk(id, tool_calls) ==
    [id |-> id, suffix |-> "_tool", kind |-> "tool", content |-> <<>>,
     tool_calls |-> tool_calls, usage |-> NoUsage]

UsageChunk(id, usage) ==
    [id |-> id, suffix |-> "_usage", kind |-> "usage", content |-> <<>>,
     tool_calls |-> <<>>, usage |-> usage]

SeqsUpTo(S, n) == UNION { [1..k -> S] : k \in 0..n }

HI == <<"h", "i">>

\* response.content blocks of the Anthropic Messages API
Blocks ==
    { [type |-> "text", text |-> HI, name |-> ""],
      [type |-> "text", text |-> <<>>, name |-> ""],
      [type |-> "tool_use", text |-> <<>>, name |-> "web_search"],
      [type |-> "thinking", text |-> <<>>, name |-> ""] }

\* what anthropic_client.messages.create does for one candidate
AnthropicOutcomes ==
    { [kind |-> "ok", status |-> 200, content |-> c, usage |-> u] :
          c \in SeqsUpTo(Blocks, MaxBlocks), u \in BOOLEAN }
    \cup { [kind |-> "status", status |-> st, content |-> <<>>, usage |-> FALSE] :
          st \in {400, 404, 429, 500, 503} }
    \cup { [kind |-> "exception", status |-> NoStatus, content |-> <<>>, usage |-> FALSE] }

\* candidates[0].content.parts of a generateContent answer
Parts ==
    { [has_text |-> TRUE, text |-> HI, has_call |-> FALSE],
      [has_text |-> TRUE, text |-> <<>>, has_call |-> FALSE],
      [has_text |-> FALSE, text |-> <<>>, has_call |-> TRUE],
      [has_text |-> TRUE, text |-> <<>>, has_call |-> TRUE],
      [has_text |-> FALSE, text |-> <<>>, has_call |-> FALSE] }

\* what session.post and resp.json do: a transport failure, an HTTP status,
\* a body that does not decode, or the decoded body
GeminiOutcomes ==
    { [kind |-> "transport", status |-> NoStatus, has_candidates |-> FALSE,
       parts |-> <<>>, usage |-> FALSE] }
    \cup { [kind |-> "http", status |-> st, has_candidates |-> FALSE,
            parts |-> <<>>, usage |-> FALSE] : st \in {400, 404, 429, 500, 503} }
    \cup { [kind |-> "undecodable", status |-> 200, has_candidates |-> FALSE,
            parts |-> <<>>, usage |-> FALSE] }
    \cup { [kind |-> "json", status |-> 200, has_candidates |-> FALSE,
            parts |-> <<>>, usage |-> u] : u \in BOOLEAN }
    \cup { [kind |-> "json", status |-> 200, has_candidates |-> TRUE,
            parts |-> ps, usage |-> u] : ps \in SeqsUpTo(Parts, MaxBlocks), u \in BOOLEAN }

SomeUsage == [prompt |-> 1, completion |-> 2, total |-> 3]

IsTextBlock(block) == block.type = "text" /\ block.text # <<>>
IsToolUse(block) == block.type = "tool_use"

TextOf(blocks) == [i \in 1..Len(blocks) |-> blocks[i].text]
NameOf(blocks) == [i \in 1..Len(blocks) |-> blocks[i].name]

\* anthropic_chat_stream: the chunks yielded for one response, in order
AnthropicChunks_usage_first(id, response) ==
    LET text_parts == TextOf(SelectSeq(response.content, IsTextBlock))
        tool_calls == NameOf(SelectSeq(response.content, IsToolUse))
    IN  (IF response.usage THEN <<UsageChunk(id, SomeUsage)>> ELSE <<>>)
        \o (IF text_parts # <<>>
            THEN <<TextChunk(id, Join(<<"\n", "\n">>, text_parts))>> ELSE <<>>)
        \o (IF tool_calls # <<>> THEN <<ToolChunk(id, tool_calls)>> ELSE <<>>)

AnthropicChunks(id, response) ==
    LET text_parts == TextOf(SelectSeq(response.content, IsTextBlock))
        tool_calls == NameOf(SelectSeq(response.content, IsToolUse))
    IN  (IF text_parts # <<>>
         THEN <<TextChunk(id, Join(<<"\n", "\n">>, text_parts))>> ELSE <<>>)
        \o (IF tool_calls # <<>> THEN <<ToolChunk(id, tool_calls)>> ELSE <<>>)
        \o (IF response.usage THEN <<UsageChunk(id, SomeUsage)>> ELSE <<>>)

IsTextPart(part) == part.has_text /\ part.text # <<>>
IsCallPart(part) == ~IsTextPart(part) /\ part.has_call

CallName(parts) == [i \in 1..Len(parts) |-> "function"]

\* gemini_chat_stream: the chunks yielded for the decoded answer, in order
GeminiChunks(id, data) ==
    LET text_parts == TextOf(SelectSeq(data.parts, IsTextPart))
        tool_calls == CallName(SelectSeq(data.parts, IsCallPart))
    IN  (IF text_parts # <<>>
         THEN <<TextChunk(id, Join(<<"\n", "\n">>, text_parts))>> ELSE <<>>)
        \o (IF tool_calls # <<>> THEN <<ToolChunk(id, tool_calls)>> ELSE <<>>)
        \o (IF data.usage THEN <<UsageChunk(id, SomeUsage)>> ELSE <<>>)

\* anthropic_chat_stream: the APIStatusError raised for a remote status
AnthropicStatusError_retry_4xx(status_code) ==
    [class |-> "APIStatusError", status_code |-> status_code,
     retryable |-> status_code >= 400]

AnthropicStatusError(status_code) ==
    [class |-> "APIStatusError", status_code |-> status_code,
     retryable |-> status_code >= 500]

\* gemini_chat_stream: the APIStatusError raised for resp.status >= 400
GeminiStatusError(status) ==
    [class |-> "APIStatusError", status_code |-> status, retryable |-> status >= 500]

\* anthropic_chat_stream: a not-found status on a candidate that is not the last
ShouldFallBack_any_status(status_code, i, n) == i < n - 1

ShouldFallBack_never(status_code, i, n) == FALSE

ShouldFallBack(status_code, i, n) == status_code = 404 /\ i < n - 1

----------------------------------------------------------------------------
(* One chat call: ExternalLLM.chat, ExternalLLMStream._run and the adapters *)

\* the loop asking the same candidate again
NextIndex_same_candidate(i) == i

\* for idx, candidate in enumerate(candidates): the index after `continue`
NextIndex(i) == i + 1

\* gemini_chat_stream raising the empty answer as a fatal error
GeminiNoCandidatesError_fatal == APIConnectionError(FALSE)

\* gemini_chat_stream: "Gemini response did not include candidates."
GeminiNoCandidatesError == APIConnectionError(TRUE)

\* the record of one request: the backend model asked and how the request ended
Attempt(candidate, kind, status) ==
    [candidate |-> candidate, kind |-> kind, status |-> status]

\* create_hybrid_llm, then ExternalLLM.chat and the first lines of the adapter
\* chosen; a call for the default provider is left to the openai plugin
StartChat ==
    /\ pc = "idle"
    /\ \E model \in ModelIds :
          LET llm == create_hybrid_llm(model)
          IN  /\ requested' = model
              /\ provider' = llm.provider
              /\ model_key' = llm.model_key
              /\ IF llm.provider = "openai"
                 THEN /\ pc' = "openai"
                      /\ candidates' = <<llm.model_key>>
                      /\ UNCHANGED error
                 ELSE IF llm.provider = "anthropic"
                 THEN IF ~anthropic_client
                      THEN /\ pc' = "error"
                           /\ error' = APIConnectionError(FALSE)
                           /\ UNCHANGED candidates
                      ELSE /\ pc' = "anthropic"
                           /\ candidates' =
                                IF llm.model_key \in DOMAIN ANTHROPIC_MODEL_CANDIDATES
                                THEN ANTHROPIC_MODEL_CANDIDATES[llm.model_key]
                                ELSE <<llm.model_key>>
                           /\ UNCHANGED error
                 ELSE IF ~GEMINI_API_KEY
                      THEN /\ pc' = "error"
                           /\ error' = APIConnectionError(FALSE)
                           /\ UNCHANGED candidates
                      ELSE /\ pc' = "gemini"
                           /\ candidates' =
                                IF llm.model_key \in DOMAIN GOOGLE_MODEL_MAP
                                THEN <<GOOGLE_MODEL_MAP[llm.model_key]>>
                                ELSE << <<"models", "/", "gemini-2.5-flash">> >>
                           /\ UNCHANGED error
    /\ idx' = 0
    /\ UNCHANGED <<anthropic_client, GEMINI_API_KEY, attempts, to_yield, event_ch>>
    /\ UNCHANGED tmvars

\* anthropic_chat_stream: one pass of the loop over the candidates
AnthropicRequest ==
    /\ pc = "anthropic"
    /\ \E outcome \in AnthropicOutcomes :
          LET candidate == candidates[idx + 1]
          IN  /\ attempts' = Append(attempts, Attempt(candidate, outcome.kind, outcome.status))
              /\ IF outcome.kind = "ok"
                 THEN /\ to_yield' = AnthropicChunks(candidate, outcome)
                      /\ pc' = "yield"
                      /\ UNCHANGED <<idx, error>>
                 ELSE IF outcome.kind = "status"
                 THEN IF ShouldFallBack(outcome.status, idx, Len(candidates))
                      THEN /\ idx' = NextIndex(idx)
                           /\ UNCHANGED <<pc, to_yield, error>>
                      ELSE /\ pc' = "error"
                           /\ error' = AnthropicStatusError(outcome.status)
                           /\ UNCHANGED <<idx, to_yield>>
                 ELSE /\ pc' = "error"
                      /\ error' = APIConnectionError(FALSE)
                      /\ UNCHANGED <<idx, to_yield>>
    /\ UNCHANGED <<anthropic_client, GEMINI_API_KEY, requested, provider, model_key, candidates,
                   event_ch>>
    /\ UNCHANGED tmvars

\* gemini_chat_stream: the one POST and the reading of its answer
GeminiRequest ==
    /\ pc = "gemini"
    /\ \E outcome \in GeminiOutcomes :
          /\ attempts' = Append(attempts,
                Attempt(candidates[1],
                        IF outcome.kind = "json" /\ ~outcome.has_candidates
                        THEN "empty" ELSE outcome.kind,
                        outcome.status))
          /\ IF outcome.kind = "transport"
             THEN /\ pc' = "error"
                  /\ error' = Unclassified("aiohttp.ClientError")
                  /\ UNCHANGED to_yield
             ELSE IF outcome.status >= 400
             THEN /\ pc' = "error"
                  /\ error' = GeminiStatusError(outcome.status)
                  /\ UNCHANGED to_yield
             ELSE IF outcome.kind = "undecodable"
             THEN /\ pc' = "error"
                  /\ error' = Unclassified("json.JSONDecodeError")
                  /\ UNCHANGED to_yield
             ELSE IF ~outcome.has_candidates
             THEN /\ pc' = "error"
                  /\ error' = GeminiNoCandidatesError
                  /\ UNCHANGED to_yield
             ELSE /\ to_yield' = GeminiChunks(candidates[1], outcome)
                  /\ pc' = "yield"
                  /\ UNCHANGED error
    /\ UNCHANGED <<anthropic_client, GEMINI_API_KEY, requested, provider, model_key, candidates,
                   idx, event_ch>>
    /\ UNCHANGED tmvars

\* _run takes a chunk from the adapter and does not send it
SendChunk_drops ==
    /\ pc = "yield"
    /\ to_yield # <<>>
    /\ to_yield' = Tail(to_yield)
    /\ UNCHANGED <<anthropic_client, GEMINI_API_KEY, requested, pc, provider, model_key, candidates,
                   idx, attempts, error, event_ch>>
    /\ UNCHANGED tmvars

\* ExternalLLMStream._run: one chunk of the adapter is sent to the consumer
SendChunk ==
    /\ pc = "yield"
    /\ to_yield # <<>>
    /\ event_ch' = Append(event_ch, Head(to_yield))
    /\ to_yield' = Tail(to_yield)
    /\ UNCHANGED <<anthropic_client, GEMINI_API_KEY, requested, pc, provider, model_key, candidates,
                   idx, attempts, error>>
    /\ UNCHANGED tmvars

\* the adapter generator returns and _run ends
StreamEnd ==
    /\ pc = "yield"
    /\ to_yield = <<>>
    /\ pc' = "done"
    /\ UNCHANGED <<anthropic_client, GEMINI_API_KEY, requested, provider, model_key, candidates,
                   idx, attempts, to_yield, event_ch, error>>
    /\ UNCHANGED tmvars

\* no chat call is under way
ChatIdle ==
    /\ pc = "idle"
    /\ provider = "-"
    /\ model_key = <<>>
    /\ candidates = <<>>
    /\ idx = 0
    /\ attempts = <<>>
    /\ to_yield = <<>>
    /\ event_ch = <<>>
    /\ error = NoError
    /\ requested = None

\* the stream is over; ExternalLLM.chat is called again
NextCall ==
    /\ pc \in {"done", "error", "openai"}
    /\ pc' = "idle"
    /\ provider' = "-"
    /\ model_key' = <<>>
    /\ candidates' = <<>>
    /\ idx' = 0
    /\ attempts' = <<>>
    /\ to_yield' = <<>>
    /\ event_ch' = <<>>
    /\ error' = NoError
    /\ requested' = None
    /\ UNCHANGED <<anthropic_client, GEMINI_API_KEY>>
    /\ UNCHANGED tmvars

----------------------------------------------------------------------------
(* The text functions of the TranscriptManager applied to drawn inputs *)

\* the strings of at most MaxLen characters over a letter and two kinds of
\* whitespace
Strings == SeqsUpTo({"a", " ", "\n"}, MaxLen)

\* the values handed to _normalize_text: strings, and the objects of the callbacks
TextInputs ==
    { Str(s) : s \in Strings } \cup {None} \cup UserFinalInputs \cup ItemInputs

\* the values stored under the keys of a dict: empty text, two texts, and a
\* list that is not empty but holds no text
DictValues == { Str(<<>>), Str(<<"a">>), Str(<<"b">>), List(<<Str(<<>>)>>) }

\* the dicts handed to _flatten_text: any of the four keys, any of the values
DictInputs ==
    { Dict(d) : d \in UNION { [K -> DictValues] :
                                K \in SUBSET {"text", "transcript", "content", "value"} } }

\* a call of TranscriptManager._flatten_text with a dict
FlattenText ==
    /\ \E value \in DictInputs :
          last' = [Idle("flatten") EXCEPT !.item = value,
                                          !.result = Str(_flatten_text(value))]
    /\ UNCHANGED <<session_id, recent_turns, pending_user_partial, tasks, clock, saved_at,
                   partial_at, buffer>>
    /\ UNCHANGED chatvars

\* a call of TranscriptManager._normalize_text
NormalizeText ==
    /\ \E text \in TextInputs :
          last' = [Idle("normalize") EXCEPT !.item = text,
                                            !.normalized = _normalize_text(text)]
    /\ UNCHANGED <<session_id, recent_turns, pending_user_partial, tasks, clock, saved_at,
                   partial_at, buffer>>
    /\ UNCHANGED chatvars

----------------------------------------------------------------------------
(* _convert_schema_for_gemini *)

Lowercase == <<"a", "b", "c", "d", "e", "f", "g", "h", "i", "j", "k", "l", "m", "n", "o", "p", "q", "r", "s", "t", "u", "v", "w", "x", "y", "z">>
Uppercase == <<"A", "B", "C", "D", "E", "F", "G", "H", "I", "J", "K", "L", "M", "N", "O", "P", "Q", "R", "S", "T", "U", "V", "W", "X", "Y", "Z">>

\* str.upper on one character
UpperChar(c) ==
    IF \E i \in 1..Len(Lowercase) : Lowercase[i] = c
    THEN Uppercase[CHOOSE i \in 1..Len(Lowercase) : Lowercase[i] = c]
    ELSE c

\* str.upper
Upper(str) == [i \in 1..Len(str) |-> UpperChar(str[i])]

RECURSIVE _convert_schema_for_gemini(_)

\* only the 'type' of the schema itself is upper-cased, nested schemas are
\* copied as they are
_convert_schema_for_gemini_top_level(value) ==
    Dict([key \in DOMAIN value.d |->
            LET val == value.d[key]
            IN  IF key = "type" /\ val.kind = "str" THEN Str(Upper(val.s))
                ELSE val])

_convert_schema_for_gemini(value) ==
    Dict([key \in DOMAIN value.d |->
            LET val == value.d[key]
            IN  IF key = "type" /\ val.kind = "str" THEN Str(Upper(val.s))
                ELSE IF key = "properties" /\ val.kind = "dict"
                THEN Dict([k \in DOMAIN val.d |-> _convert_schema_for_gemini(val.d[k])])
                ELSE IF key = "items" /\ val.kind = "dict"
                THEN _convert_schema_for_gemini(val)
                ELSE val])

TYPE_STRING == <<"s", "t", "r", "i", "n", "g">>
TYPE_OBJECT == <<"o", "b", "j", "e", "c", "t">>
TYPE_ARRAY == <<"a", "r", "r", "a", "y">>

\* schemas without nested schemas: lower-case, mixed-case and upper-case
\* types, a type that is a list, and keys other than 'type' whose values
\* are the word 'string' or hold a 'type' key of their own
LeafSchemas ==
    { Dict([type |-> Str(TYPE_STRING)]),
      Dict([type |-> Str(<<"I", "n", "t", "e", "g", "e", "r">>)]),
      Dict([type |-> Str(<<"N", "U", "M", "B", "E", "R">>)]),
      Dict([type |-> List(<<Str(TYPE_STRING), Str(<<"n", "u", "l", "l">>)>>)]),
      Dict([type |-> Str(TYPE_OBJECT), description |-> Str(TYPE_STRING),
            default |-> Dict([type |-> Str(TYPE_STRING)])]) }

\* an array schema with the item schema s
ArrayOf(s) == Dict([type |-> Str(TYPE_ARRAY), items |-> s])

\* an object schema with the one property x
ObjectOf(s) ==
    Dict([type |-> Str(TYPE_OBJECT), properties |-> Dict([x |-> s]),
          required |-> List(<<Str(<<"x">>)>>)])

\* an object schema with a property that is itself named type
ObjectWithType(s) ==
    Dict([type |-> Str(TYPE_OBJECT),
          properties |-> Dict([type |-> s, x |-> Dict([type |-> Str(TYPE_STRING)])])])

RECURSIVE SchemasUpTo(_)
\* the schemas nested to the depth n at most
SchemasUpTo(n) ==
    IF n = 0 THEN LeafSchemas
    ELSE LET inner == SchemasUpTo(n - 1)
         IN  LeafSchemas \cup { ArrayOf(s) : s \in inner }
                         \cup { ObjectOf(s) : s \in inner }
                         \cup { ObjectWithType(s) : s \in inner }

\* the parameter schemas of the declared tools
SchemaInputs == SchemasUpTo(MaxDepth)

\* build_gemini_tool_declarations converts the parameter schema of a tool
ConvertSchema ==
    /\ \E schema \in SchemaInputs :
          last' = [Idle("convert_schema") EXCEPT !.item = schema,
                         !.result = _convert_schema_for_gemini(schema)]
    /\ UNCHANGED <<session_id, recent_turns, pending_user_partial, tasks, clock, saved_at,
                   partial_at, buffer>>
    /\ UNCHANGED chatvars

----------------------------------------------------------------------------
(* Specifications *)

\* the TranscriptManager of one session, with no chat call under way
Init ==
    /\ TranscriptManagerInit(SessionIds)
    /\ anthropic_client = TRUE
    /\ GEMINI_API_KEY = TRUE
    /\ ChatIdle

Next ==
    \/ OnUserTranscribed
    \/ OnUserSpeech
    \/ OnAgentSpeech
    \/ OnConversationItem
    \/ Tick
    \/ StartTasks

Spec == Init /\ [][Next]_vars

\* calls of the text functions, outside any session traffic
NextText ==
    \/ NormalizeText
    \/ FlattenText

SpecText == Init /\ [][NextText]_vars

\* the schema translation applied to the parameter schemas of the tools
NextSchema ==
    \/ ConvertSchema

SpecSchema == Init /\ [][NextSchema]_vars

\* the assistant's speech of a session: the transcript sink and the
\* agent_speech_committed callback feeding one TranscriptManager
NextSink ==
    \/ CaptureText
    \/ Flush
    \/ OnAgentSpeech
    \/ Tick
    \/ StartTasks

SpecSink == Init /\ [][NextSink]_vars

\* the chat calls of a process, whatever credentials it was started with
InitChat ==
    /\ TranscriptManagerInit({None})
    /\ anthropic_client \in BOOLEAN
    /\ GEMINI_API_KEY \in BOOLEAN
    /\ ChatIdle

NextChat ==
    \/ StartChat
    \/ AnthropicRequest
    \/ GeminiRequest
    \/ SendChunk
    \/ StreamEnd
    \/ NextCall

SpecChat == InitChat /\ [][NextChat]_vars

\* The event loop keeps running a call that was started: a request is answered
\* or fails (the HTTP clients time out), send_nowait never blocks, and the
\* generator runs to its end.  Whether another call is made is up to the caller.
SpecChatFair ==
    /\ SpecChat
    /\ WF_vars(AnthropicRequest)
    /\ WF_vars(GeminiRequest)
    /\ WF_vars(SendChunk)
    /\ WF_vars(StreamEnd)

----------------------------------------------------------------------------
(* Properties of the TranscriptManager, checked under Spec *)

Bound == Truthy(session_id)

HandlerCalled == last.op \in {"chunk", "final_text", "assistant_text", "conversation_item"}

\* the last call handed a text to _maybe_save_turn
GateCalled == HandlerCalled /\ last.gate_text # NoCall

\* C1: with a bound session, a text handed to the persistence gate that was last
\* saved for the same speaker at t0 is suppressed when the clock is below
\* t0 + 5 and saved again when it is at least t0 + 5, for every t0 (0 included).
C1_DedupWindow ==
    (Bound /\ GateCalled /\ last.prev # NoEntry) =>
        /\ (clock < last.prev + DEDUPE_WINDOW_SECONDS => ~last.saved)
        /\ (clock >= last.prev + DEDUPE_WINDOW_SECONDS => last.saved)

\* a final user chunk whose text is the held partial
FinalRepeatsPartial ==
    /\ last.op = "chunk"
    /\ last.is_final
    /\ last.partial_before = Str(last.normalized)

\* the final user chunk is the next call after the non-final chunk of the same
\* text and comes less than 5 seconds after it
FinalAfterSamePartial ==
    /\ FinalRepeatsPartial
    /\ last.since # NoEntry
    /\ clock - last.since < DEDUPE_WINDOW_SECONDS

\* C2 as stated: with a bound session, a final user chunk that directly follows
\* a non-final chunk of the same text T, less than 5 seconds later, creates
\* exactly one save_turn task, for (user, T), and leaves no held partial (the
\* non-final chunk creates none).
C2_ExactlyOneSave ==
    (Bound /\ FinalAfterSamePartial) =>
        /\ tasks # <<>>
        /\ last.saved
        /\ tasks[Len(tasks)].speaker = "user"
        /\ tasks[Len(tasks)].text = last.normalized
        /\ pending_user_partial = None

\* C2 amended: a non-final user chunk creates no save_turn task; the final
\* chunk of the same text T that follows it creates at most one, for (user, T),
\* and exactly one when T was not saved for user in the 5 seconds before it;
\* either way no partial is held afterwards.
C2_OneSaveUnlessDuplicate ==
    /\ (last.op = "chunk" /\ ~last.is_final) => ~last.saved
    /\ (Bound /\ FinalRepeatsPartial) =>
          /\ pending_user_partial = None
          /\ last.gate_text = last.normalized
          /\ last.saved =>
                /\ tasks[Len(tasks)].speaker = "user"
                /\ tasks[Len(tasks)].text = last.normalized
          /\ (last.prev = NoEntry \/ clock - last.prev >= DEDUPE_WINDOW_SECONDS)
                => last.saved

\* C2 witness: a final chunk repeating the held partial was saved
C2_Witness ==
    /\ Bound /\ FinalAfterSamePartial /\ last.normalized = AB
    /\ last.saved /\ pending_user_partial = None

\* C3 as stated: every user chunk sets the held partial to its normalized text
\* (nothing held when that text is empty), and a final chunk leaves no held partial.
C3_AlwaysUpdatesPartial ==
    last.op = "chunk" =>
        IF last.is_final THEN pending_user_partial = None
        ELSE IF last.normalized = <<>> THEN ~Truthy(pending_user_partial)
        ELSE pending_user_partial = Str(last.normalized)

\* C3 amended: a user chunk whose normalized text is non-empty sets the held
\* partial to it, and clears it when final, whether the turn was saved,
\* suppressed or dropped by the gate; a chunk whose text normalizes to the
\* empty string leaves the held partial as it was.
C3_UpdatesPartialUnlessEmpty ==
    last.op = "chunk" =>
        IF last.normalized = <<>> THEN pending_user_partial = last.partial_before
        ELSE IF last.is_final THEN pending_user_partial = None
        ELSE pending_user_partial = Str(last.normalized)

\* C3 witness: a final chunk suppressed as a duplicate cleared the held partial
C3_Witness ==
    /\ Bound /\ last.op = "chunk" /\ last.is_final
    /\ last.gate_text = A /\ ~last.saved
    /\ Truthy(last.partial_before) /\ pending_user_partial = None

\* C4: handle_user_final_text hands the normalized text to the gate when it is
\* non-empty and the held partial otherwise; it calls the gate only with a
\* non-empty text; and no partial is held after it returns.
C4_FinalTextFallback ==
    last.op = "final_text" =>
        /\ pending_user_partial = None
        /\ last.normalized # <<>> => last.gate_text = last.normalized
        /\ (last.normalized = <<>> /\ Truthy(last.partial_before))
              => last.gate_text = last.partial_before.s
        /\ (last.normalized = <<>> /\ ~Truthy(last.partial_before))
              => (last.gate_text = NoCall /\ ~last.saved)
        /\ last.gate_text # <<>>

\* C4 witness: an empty final text saved the held partial
C4_Witness ==
    /\ last.op = "final_text" /\ last.normalized = <<>>
    /\ last.partial_before = Str(A) /\ last.gate_text = A /\ last.saved
    /\ pending_user_partial = None

\* C5: without a bound session no handler call ever creates a save_turn task
\* or changes a dedup cache; and a call that has no non-empty text to persist
\* creates no task and changes no cache.
C5_GateNoOp ==
    /\ ~Bound =>
          /\ tasks = <<>> /\ ~last.saved /\ ~last.cache_changed
          /\ \A s \in Speakers : DOMAIN recent_turns[s] = {}
    /\ (HandlerCalled /\ last.gate_text \in {NoCall, <<>>}) =>
          (~last.saved /\ ~last.cache_changed)

\* C5 witness: a final chunk with text reached the gate of an unbound session
C5_Witness ==
    /\ session_id = Str(<<>>) /\ last.op = "chunk" /\ last.is_final
    /\ last.gate_text = A /\ ~last.saved

----------------------------------------------------------------------------
(* Properties of the chat adapters, checked under SpecChat *)

LastAttempt == attempts[Len(attempts)]

Failed(a) == a.kind # "ok"

NotFound(a) == a.kind = "status" /\ a.status = 404

\* C6: the candidate-based adapter asks the candidates in list order, each at
\* most once, and asks a further candidate only after a not-found status: every
\* request but the last one made ended with status 404.
C6_CandidateOrder ==
    provider = "anthropic" =>
        /\ Len(attempts) <= Len(candidates)
        /\ \A i \in 1..Len(attempts) :
              /\ attempts[i].candidate = candidates[i]
              /\ i < Len(attempts) => NotFound(attempts[i])
        /\ \A i, j \in 1..Len(attempts) :
              i # j => attempts[i].candidate # attempts[j].candidate

\* C6 witness: the first candidate was not found and the second answered
C6_Witness ==
    /\ provider = "anthropic" /\ Len(attempts) = 2
    /\ NotFound(attempts[1]) /\ attempts[2].kind = "ok"

\* C7: a call of the candidate-based adapter ends in an error exactly when a
\* request failed otherwise than by not-found or the request for the last
\* candidate failed; a not-found on an earlier candidate is not raised; and a
\* call that ends well delivers only chunks of the candidate that answered.
C7_ErrorIff ==
    (provider = "anthropic" /\ pc \in {"done", "error"}) =>
        /\ (pc = "error") <=>
              \E i \in 1..Len(attempts) :
                 Failed(attempts[i]) /\ (~NotFound(attempts[i]) \/ i = Len(candidates))
        /\ pc = "error" =>
              /\ error # NoError
              /\ event_ch = <<>>
              /\ ~(NotFound(LastAttempt) /\ Len(attempts) < Len(candidates))
        /\ pc = "done" =>
              /\ error = NoError
              /\ LastAttempt.kind = "ok"
              /\ \A k \in 1..Len(event_ch) : event_ch[k].id = LastAttempt.candidate

\* C7 witness: after a not-found the second candidate answered and its chunks
\* reached the caller without an error
C7_Witness ==
    /\ provider = "anthropic" /\ pc = "done" /\ Len(attempts) = 2
    /\ NotFound(attempts[1]) /\ event_ch # <<>> /\ error = NoError

\* C8: an error status of the remote service that either adapter raises to the
\* caller is an APIStatusError with that status, retryable exactly when the
\* status is at least 500.
C8_StatusErrorClassified ==
    /\ (pc = "error" /\ attempts # <<>> /\ LastAttempt.kind \in {"status", "http"}) =>
          /\ error.class = "APIStatusError"
          /\ error.status_code = LastAttempt.status
          /\ error.retryable <=> (LastAttempt.status >= 500)
    /\ error.class = "APIStatusError" =>
          (pc = "error" /\ LastAttempt.kind \in {"status", "http"})

\* C8 witness: the last candidate was not found and the error is not retryable
C8_Witness ==
    /\ provider = "anthropic" /\ pc = "error" /\ Len(attempts) = 2
    /\ error.status_code = 404 /\ ~error.retryable

\* a transport failure, a body that does not decode, or an answer without candidates
ConnectivityFailure(a) == a.kind \in {"exception", "transport", "undecodable", "empty"}

\* C9: a call of either adapter whose request met a connectivity failure ends
\* with an APIConnectionError classified retryable.
C9_ConnectivityRetryable ==
    (pc \in {"done", "error"} /\ attempts # <<>> /\ ConnectivityFailure(LastAttempt)) =>
        /\ pc = "error"
        /\ error.class = "APIConnectionError"
        /\ error.retryable

Rank(kind) == CASE kind = "text" -> 1 [] kind = "tool" -> 2 [] kind = "usage" -> 3

\* C10: the chunks of one response reach the consumer in the order text, tool
\* call, usage, with at most one chunk of each kind.
C10_ChunkOrder ==
    \A i, j \in 1..Len(event_ch) :
        i < j => Rank(event_ch[i].kind) < Rank(event_ch[j].kind)

\* C10 witness: a response delivered a text, a tool-call and a usage chunk
C10_Witness ==
    /\ pc = "done" /\ Len(event_ch) = 3

----------------------------------------------------------------------------
(* Properties of the provider router, checked under SpecChat *)

\* create_hybrid_llm has answered for the identifier in requested
Resolved == pc # "idle"

\* the identifier as a string ("" when absent)
RequestedName == IF Truthy(requested) THEN requested.s ELSE <<>>

HasPrefix(s, p) == StartsWith(s, <<p, "/">>)

AfterPrefix(s) == SubSeq(s, 3, Len(s))

IsAlternateKey(s) ==
    s \in DOMAIN ANTHROPIC_MODEL_CANDIDATES \/ s \in DOMAIN GOOGLE_MODEL_MAP

\* the backend model names the call will ask, in order
BackendNames == candidates

\* C11 as stated: with both credentials present, an identifier with the prefix
\* of any provider resolves to that provider and the identifier without the
\* prefix is the backend model name; otherwise a key of an alternate
\* provider's table resolves to that provider; otherwise the default provider.
C11_AnyPrefixSelectsProvider ==
    (Resolved /\ anthropic_client /\ GEMINI_API_KEY) =>
        LET s == RequestedName
        IN  IF \E p \in {"openai", "anthropic", "google"} : HasPrefix(s, p)
            THEN /\ HasPrefix(s, provider)
                 /\ BackendNames = <<AfterPrefix(s)>>
            ELSE IF s \in DOMAIN ANTHROPIC_MODEL_CANDIDATES THEN provider = "anthropic"
            ELSE IF s \in DOMAIN GOOGLE_MODEL_MAP THEN provider = "google"
            ELSE provider = "openai"

\* C11 amended: with both credentials present, (1) an identifier with the
\* prefix "openai/" resolves to the default provider and the identifier
\* without the prefix is the backend model name; (2) otherwise a key of an
\* alternate provider's table resolves to that provider, the backend names
\* being those of the table; (3) otherwise, whatever other prefix the
\* identifier has, it resolves to the default provider.
C11_ResolutionOrder ==
    (Resolved /\ anthropic_client /\ GEMINI_API_KEY) =>
        LET s == RequestedName
        IN  IF HasPrefix(s, "openai")
            THEN /\ provider = "openai"
                 /\ BackendNames = <<AfterPrefix(Strip(s))>>
            ELSE IF s \in DOMAIN ANTHROPIC_MODEL_CANDIDATES
            THEN /\ provider = "anthropic"
                 /\ BackendNames = ANTHROPIC_MODEL_CANDIDATES[s]
            ELSE IF s \in DOMAIN GOOGLE_MODEL_MAP
            THEN /\ provider = "google"
                 /\ BackendNames = <<GOOGLE_MODEL_MAP[s]>>
            ELSE provider = "openai"

\* C11 witness: an identifier with an alternate provider's prefix that is not
\* a key of its table resolved to the default provider
C11_Witness ==
    /\ Resolved /\ anthropic_client /\ GEMINI_API_KEY
    /\ requested = Str(<<"google", "/", "gemini-1.0">>)
    /\ provider = "openai"

\* C12: an identifier that is a key of an alternate provider whose credential
\* is absent resolves, without an error, to the default provider with
\* DEFAULT_OPENAI_CHAT_MODEL; so an alternate provider's adapter is returned
\* only when its credential is present.
C12_FallbackWithoutCredential ==
    Resolved =>
        /\ provider = "anthropic" => anthropic_client
        /\ provider = "google" => GEMINI_API_KEY
        /\ (\/ RequestedName \in DOMAIN ANTHROPIC_MODEL_CANDIDATES /\ ~anthropic_client
            \/ RequestedName \in DOMAIN GOOGLE_MODEL_MAP /\ ~GEMINI_API_KEY) =>
              /\ provider = "openai"
              /\ model_key = DEFAULT_OPENAI_CHAT_MODEL
              /\ pc = "openai"
              /\ error = NoError

\* C12 witness: without the Anthropic credential an Anthropic key resolved to
\* the default provider and model
C12_Witness ==
    /\ Resolved /\ ~anthropic_client /\ requested = Str(SONNET)
    /\ provider = "openai" /\ model_key = DEFAULT_OPENAI_CHAT_MODEL

\* C13: an identifier (absent and blank ones included) that has no "openai/"
\* prefix and is no key of an alternate provider's table resolves, whatever
\* the credentials, to the default provider with DEFAULT_OPENAI_CHAT_MODEL.
C13_DefaultProviderAndModel ==
    (Resolved /\ ~HasPrefix(Strip(RequestedName), "openai")
              /\ ~IsAlternateKey(RequestedName)) =>
        /\ provider = "openai"
        /\ model_key = DEFAULT_OPENAI_CHAT_MODEL
        /\ BackendNames = <<DEFAULT_OPENAI_CHAT_MODEL>>

\* C13 witness: a blank identifier resolved to the default provider and model
C13_Witness ==
    /\ Resolved /\ requested = Str(<<" ">>)
    /\ provider = "openai" /\ model_key = DEFAULT_OPENAI_CHAT_MODEL

----------------------------------------------------------------------------
(* Further properties of the chat adapters, checked under SpecChat *)

Terminal == pc \in {"done", "error"}

\* C14: a call of the single-shot adapter issues one request, never a second
\* one, and when the decoded answer has no candidate the call ends with a
\* retryable APIConnectionError and no chunk has been emitted.
C14_SingleShot ==
    provider = "google" =>
        /\ Len(attempts) <= 1
        /\ pc \in {"yield", "done", "error"} => Len(attempts) = 1
        /\ (attempts # <<>> /\ attempts[1].kind = "empty") =>
              /\ pc = "error"
              /\ error.class = "APIConnectionError"
              /\ error.retryable
              /\ event_ch = <<>>
              /\ to_yield = <<>>

\* C14 witness: the one request was answered without candidates
C14_Witness ==
    /\ provider = "google" /\ pc = "error" /\ Len(attempts) = 1
    /\ attempts[1].kind = "empty" /\ error.retryable /\ event_ch = <<>>

\* an adapter call is under way
Active == pc \in {"anthropic", "gemini", "yield"}

\* C15: an adapter call issues at most as many requests as its model key has
\* candidates (one for the single-shot adapter), ends either completed without
\* an error or with an error, is not resumed once it has ended, and every call
\* under way does end.
C15_CallTerminates ==
    /\ [](provider = "anthropic" => Len(attempts) <= Len(candidates))
    /\ [](provider = "google" => Len(attempts) <= 1)
    /\ [](Terminal => ((pc = "done") <=> (error = NoError)))
    /\ [][Terminal => pc' = "idle"]_vars
    /\ (Active ~> Terminal)

\* C15 witness: the candidate-based adapter asked its last candidate and ended
C15_Witness ==
    /\ provider = "anthropic" /\ Terminal
    /\ Len(candidates) = 2 /\ Len(attempts) = Len(candidates)

----------------------------------------------------------------------------
(* Further properties of the TranscriptManager, checked under Spec *)

SaveRan == last.op = "save_turn"

\* C16: a handler call that schedules a save returns with the save_turn task
\* created and not yet run; a save_turn task makes at most one POST, whatever
\* the answer or failure, lets no exception out, and leaves the session id,
\* the dedup caches and the held partial as they were.
C16_FireAndForget ==
    /\ []((HandlerCalled /\ last.saved) =>
            /\ tasks # <<>>
            /\ tasks[Len(tasks)] = [session_id |-> session_id,
                                    speaker |-> last.speaker,
                                    text |-> last.gate_text]
            /\ last.posts = 0)
    /\ [](SaveRan =>
            /\ last.posts <= 1
            /\ last.outcome \in PostOutcomes => last.posts = 1
            /\ ~last.raised)
    /\ [][SaveRan' => UNCHANGED <<session_id, recent_turns, pending_user_partial,
                                 saved_at>>]_vars

\* C16 witness: the POST of a save_turn task timed out
C16_Witness ==
    /\ SaveRan /\ last.outcome = "timeout" /\ last.posts = 1 /\ ~last.raised

Other(speaker) == IF speaker = "user" THEN "assistant" ELSE "user"

\* C17: a text handed to the gate is suppressed only if it was saved before for
\* the same speaker, and is saved when it never was, whatever was saved for
\* the other speaker; and a handler call for one speaker leaves the other
\* speaker's dedup cache as it was.
C17_PerSpeakerDedup ==
    /\ []((Bound /\ GateCalled) =>
            /\ ~last.saved => last.prev # NoEntry
            /\ last.prev = NoEntry => last.saved)
    /\ [][\A sp \in Speakers :
            (last'.op \in {"chunk", "final_text", "assistant_text", "conversation_item"}
             /\ last'.speaker = sp)
                => recent_turns'[Other(sp)] = recent_turns[Other(sp)]]_vars

\* C17 witness: a text was saved for the assistant while the user's cache held
\* the same text, saved within the window
C17_Witness ==
    /\ Bound /\ GateCalled /\ last.speaker = "assistant" /\ last.saved
    /\ last.gate_text \in DOMAIN recent_turns["user"]
    /\ recent_turns["user"][last.gate_text] > 0
    /\ clock - recent_turns["user"][last.gate_text] < DEDUPE_WINDOW_SECONDS

\* the age of a cache entry
Age(sp, phrase) == clock - recent_turns[sp][phrase]

\* C18: a turn is suppressed only by a cache entry less than 5 seconds old, and
\* right after a duplicate check for a speaker no entry of that speaker's cache
\* is more than 5 seconds old.
C18_ExpiredEntriesPurged ==
    (Bound /\ GateCalled) =>
        /\ ~last.saved =>
              /\ last.gate_text \in DOMAIN recent_turns[last.speaker]
              /\ Age(last.speaker, last.gate_text) < DEDUPE_WINDOW_SECONDS
        /\ \A phrase \in DOMAIN recent_turns[last.speaker] :
              Age(last.speaker, phrase) <= DEDUPE_WINDOW_SECONDS

\* C18 witness: a check for one text purged the expired entry of another text
C18_Witness ==
    /\ Bound /\ GateCalled
    /\ \E phrase \in DOMAIN saved_at[last.speaker] :
          /\ phrase # last.gate_text
          /\ clock - saved_at[last.speaker][phrase] > DEDUPE_WINDOW_SECONDS
          /\ phrase \notin DOMAIN recent_turns[last.speaker]

\* the held partial is absent or one non-empty normalized string
SingleSlot ==
    \/ pending_user_partial = None
    \/ /\ pending_user_partial.kind = "str"
       /\ pending_user_partial.s # <<>>
       /\ _normalize_text(pending_user_partial) = pending_user_partial.s

\* C19 as stated: the held partial is absent or one non-empty normalized
\* string; after a non-final user chunk with text it is that chunk's normalized
\* text; and after a final chunk or handle_user_final_text it is absent.
C19_ClearedByEveryFinalization ==
    /\ SingleSlot
    /\ (last.op = "chunk" /\ ~last.is_final /\ last.normalized # <<>>) =>
          pending_user_partial = Str(last.normalized)
    /\ (last.op = "chunk" /\ last.is_final) => pending_user_partial = None
    /\ last.op = "final_text" => pending_user_partial = None

\* C19 amended: the held partial is absent or one non-empty normalized string;
\* a non-final user chunk whose normalized text is non-empty overwrites it with
\* that text; a final chunk whose normalized text is non-empty and
\* handle_user_final_text clear it; and every other step, a chunk that
\* normalizes to the empty string included, leaves it as it was.
C19_SingleSlot ==
    /\ [](SingleSlot)
    /\ []((last.op = "chunk" /\ last.normalized # <<>>) =>
            pending_user_partial = IF last.is_final THEN None ELSE Str(last.normalized))
    /\ [](last.op = "final_text" => pending_user_partial = None)
    /\ [][(\/ last'.op \notin {"chunk", "final_text"}
           \/ last'.op = "chunk" /\ last'.normalized = <<>>)
            => UNCHANGED pending_user_partial]_vars

\* C19 witness: a non-final chunk replaced the held partial by another text
C19_Witness ==
    /\ last.op = "chunk" /\ ~last.is_final
    /\ last.partial_before = Str(A) /\ pending_user_partial = Str(AB)

\* C20: handle_conversation_item given an absent item or an item whose role is
\* neither user nor assistant schedules no save and leaves the dedup caches and
\* the held partial as they were; for any other item it takes text_content
\* when that is non-empty and content otherwise, and hands the normalized text
\* (if non-empty) to the gate under the item's role.
C20_ConversationItem ==
    last.op = "conversation_item" =>
        LET role == GetAttr(last.item, "role")
            text_content == GetAttr(last.item, "text_content")
            chosen == IF Truthy(text_content) THEN text_content
                      ELSE GetAttr(last.item, "content")
        IN  IF ~Truthy(last.item) \/ role \notin {Str(<<"user">>), Str(<<"assistant">>)}
            THEN /\ last.gate_text = NoCall
                 /\ ~last.saved /\ ~last.cache_changed
                 /\ pending_user_partial = last.partial_before
            ELSE /\ Str(<<last.speaker>>) = role
                 /\ last.normalized = _normalize_text(chosen)
                 /\ last.gate_text = IF last.normalized # <<>> THEN last.normalized ELSE NoCall
                 /\ last.saved =>
                       /\ tasks[Len(tasks)].speaker = last.speaker
                       /\ tasks[Len(tasks)].text = _normalize_text(chosen)

\* C20 witness: a user item without text_content was saved with the text of
\* its content field
C20_Witness ==
    /\ last.op = "conversation_item" /\ last.speaker = "user" /\ last.saved
    /\ GetAttr(last.item, "text_content") = None
    /\ last.normalized = AB

----------------------------------------------------------------------------
(* Properties of the transcript sink, checked under SpecSink *)

\* the text a flush joins from the captured chunks
Combined == Strip(Join(<<>>, buffer))

\* a flush of a buffer that holds chunks
FlushStep == buffer # <<>> /\ buffer' = <<>>

\* the sink's part of C21: a flush empties the buffer and hands the chunks,
\* joined in capture order, to handle_assistant_text in one call; a flush of
\* an empty (or blank) buffer forwards nothing
SinkForwardsJoined ==
    /\ FlushStep =>
          IF Combined = <<>>
          THEN last'.op = "flush" /\ UNCHANGED <<tasks, recent_turns>>
          ELSE /\ last'.op = "assistant_text"
               /\ last'.gate_text = _normalize_text(Str(Combined))
    /\ last'.op = "flush" => (buffer' = <<>> /\ UNCHANGED <<tasks, recent_turns>>)
    /\ last'.op = "capture_text" =>
          (buffer # buffer' /\ SubSeq(buffer', 1, Len(buffer)) = buffer)

\* C21: a flush empties the buffer and forwards the captured chunks joined in
\* capture order in one call, an empty buffer forwards nothing, and (session
\* bound) the joined text is not saved when the same assistant text was saved
\* less than 5 seconds before, through the sink or another assistant callback.
C21_SinkPersistsOnce ==
    [][/\ SinkForwardsJoined
       /\ (FlushStep /\ Combined # <<>> /\ Bound
            /\ At(saved_at["assistant"], _normalize_text(Str(Combined))) # NoEntry
            /\ clock - At(saved_at["assistant"], _normalize_text(Str(Combined)))
                  < DEDUPE_WINDOW_SECONDS)
              => UNCHANGED tasks]_vars

\* the same with the case of C1 (a text saved at clock 0) left out
C21_ExceptSavedAtZero ==
    [][/\ SinkForwardsJoined
       /\ (FlushStep /\ Combined # <<>> /\ Bound
            /\ At(saved_at["assistant"], _normalize_text(Str(Combined))) > 0
            /\ clock - At(saved_at["assistant"], _normalize_text(Str(Combined)))
                  < DEDUPE_WINDOW_SECONDS)
              => UNCHANGED tasks]_vars

----------------------------------------------------------------------------
(* Properties of the text functions, checked under SpecText *)

Normalized == last.op = "normalize"

\* a string without a whitespace character
NoSpace(str) == \A i \in 1..Len(str) : ~IsSpace(str[i])

\* C22: normalizing the result of _normalize_text gives the same result; the
\* result neither starts nor ends with whitespace, its whitespace characters
\* are single spaces between other characters, and an input made of
\* whitespace only gives the empty string.
C22_NormalizeIdempotent ==
    Normalized =>
        LET r == last.normalized
        IN  /\ _normalize_text(Str(r)) = r
            /\ r # <<>> => (~IsSpace(r[1]) /\ ~IsSpace(r[Len(r)]))
            /\ \A i \in 1..Len(r) : IsSpace(r[i]) => r[i] = " "
            /\ \A i \in 1..(Len(r) - 1) : ~(IsSpace(r[i]) /\ IsSpace(r[i + 1]))
            /\ (last.item.kind = "str" /\ \A i \in 1..Len(last.item.s) : IsSpace(last.item.s[i]))
                  => r = <<>>

\* C22 witness: a text with a run of two different whitespace characters
C22_Witness ==
    /\ Normalized /\ last.item = Str(<<"a", " ", "\n", "a">>)
    /\ last.normalized = <<"a", " ", "a">>

Flattened == last.op = "flatten"

\* the order of preference among the keys of a mapping
PreferenceOrder == <<"text", "transcript", "content", "value">>

\* the places in PreferenceOrder of the keys of d that yield text
YieldsText(d) ==
    { i \in 1..Len(PreferenceOrder) :
        /\ PreferenceOrder[i] \in DOMAIN d
        /\ _flatten_text(d[PreferenceOrder[i]]) # <<>> }

\* C23: flattening a mapping gives the flattened value of the first key, in
\* the order text, transcript, content, value, that is present and yields
\* text, keys that are present but empty or flatten to nothing being skipped,
\* and the empty string when no key yields text.
C23_DictFirstNonEmpty ==
    Flattened =>
        LET d == last.item.d
            good == YieldsText(d)
        IN  IF good = {} THEN last.result = Str(<<>>)
            ELSE \E i \in good :
                    /\ \A j \in good : i <= j
                    /\ last.result = Str(_flatten_text(d[PreferenceOrder[i]]))

\* C23 witness: text is present but empty, content and value both hold text,
\* and the text of content is the result
C23_Witness ==
    /\ Flattened
    /\ last.item = Dict([text |-> Str(<<>>), content |-> Str(<<"a">>),
                         value |-> Str(<<"b">>)])
    /\ last.result = Str(<<"a">>)

----------------------------------------------------------------------------
(* Properties of the stream wrapper, checked under SpecChat *)

\* the chunks of the adapter: those delivered, then those still to come
AdapterChunks == event_ch \o to_yield

\* C25: the stream wrapper delivers exactly the chunks of the adapter, in the
\* same order, none dropped, repeated or added: nothing is delivered before
\* the adapter has its chunks, each step of the stream keeps delivered plus
\* outstanding chunks the same and delivers the next outstanding chunk or
\* none, the stream ends only when nothing is outstanding, and a call that
\* ends with an adapter error ends as an error.
C25_StreamForwardsUnchanged ==
    [][ /\ (pc # "yield" /\ pc' = "yield") => (event_ch' = <<>> /\ error' = NoError)
        /\ pc = "yield" =>
              /\ AdapterChunks' = AdapterChunks
              /\ \/ event_ch' = event_ch
                 \/ /\ to_yield # <<>>
                    /\ event_ch' = Append(event_ch, Head(to_yield))
              /\ pc' = "done" => (to_yield = <<>> /\ event_ch' = AdapterChunks)
        /\ pc' = "error" => (error' # NoError /\ event_ch' = <<>> /\ pc # "yield")
      ]_vars

\* C25 witness: a stream ended after two chunks or more were delivered and
\* none is outstanding
C25_Witness ==
    /\ pc = "done" /\ Len(event_ch) >= 2 /\ to_yield = <<>> /\ error = NoError

----------------------------------------------------------------------------
(* Properties of the schema translation, checked under SpecSchema *)

Converted == last.op = "convert_schema"

RECURSIVE NestedSchemas(_, _)
\* the pairs of a schema nested in a and of what stands at its place in b,
\* nesting being through the properties of an object and the items of an array
NestedSchemas(a, b) ==
    LET Under(key) ==
            /\ a.kind = "dict" /\ b.kind = "dict"
            /\ key \in DOMAIN a.d /\ key \in DOMAIN b.d
            /\ a.d[key].kind = "dict" /\ b.d[key].kind = "dict"
        props == IF Under("properties") /\ DOMAIN a.d.properties.d = DOMAIN b.d.properties.d
                 THEN UNION { NestedSchemas(a.d.properties.d[k], b.d.properties.d[k]) :
                                k \in DOMAIN a.d.properties.d }
                 ELSE {}
        items == IF Under("items") THEN NestedSchemas(a.d.items, b.d.items) ELSE {}
    IN  {<<a, b>>} \cup props \cup items

\* the value is held by a key through which schemas nest
Nests(key, val) == key \in {"properties", "items"} /\ val.kind = "dict"

\* C24: in the translated schema every schema, at every depth of nesting
\* through object properties and array items, has the keys it had, its
\* 'type' is the upper-cased string it was, the names of its properties are
\* the same, and every other value is the one it was.
C24_TypesUpperCased ==
    Converted =>
        \A pair \in NestedSchemas(last.item, last.result) :
            LET a == pair[1]
                b == pair[2]
            IN  /\ b.kind = "dict"
                /\ DOMAIN b.d = DOMAIN a.d
                /\ \A key \in DOMAIN a.d :
                      IF key = "type" /\ a.d[key].kind = "str"
                      THEN b.d[key] = Str(Upper(a.d[key].s))
                      ELSE IF Nests(key, a.d[key])
                      THEN /\ b.d[key].kind = "dict"
                           /\ DOMAIN b.d[key].d = DOMAIN a.d[key].d
                      ELSE b.d[key] = a.d[key]

\* C24 witness: an object whose property x is an array of strings; the types
\* at the three depths are upper-cased and the required list is as it was
C24_Witness ==
    /\ Converted
    /\ last.item = ObjectOf(ArrayOf(Dict([type |-> Str(TYPE_STRING)])))
    /\ last.result.d.type = Str(Upper(TYPE_OBJECT))
    /\ last.result.d.properties.d.x.d.type = Str(Upper(TYPE_ARRAY))
    /\ last.result.d.properties.d.x.d.items.d.type = Str(<<"S", "T", "R", "I", "N", "G">>)
    /\ last.result.d.required = last.item.d.required

----------------------------------------------------------------------------
(* Properties of the dedup window and the held partial, checked under Spec *)

\* the text of the last call was saved for its speaker less than 5 seconds ago
SavedInWindow ==
    /\ last.prev # NoEntry
    /\ clock - last.prev < DEDUPE_WINDOW_SECONDS

\* C26: with a bound session, whichever callback hands a text to the gate
\* (final chunk, committed-speech text, conversation item), the first arrival
\* of the text for a speaker is saved and every arrival of it less than 5
\* seconds after that save is not, so the arrivals within the window
\* schedule one save in every order.
C26_OneSavePerWindow ==
    (Bound /\ GateCalled) =>
        /\ last.prev = NoEntry => last.saved
        /\ SavedInWindow => ~last.saved

\* the same with the case of C1 (a text saved at clock 0) left out
C26_ExceptSavedAtZero ==
    (Bound /\ GateCalled) =>
        /\ last.prev = NoEntry => last.saved
        /\ (SavedInWindow /\ last.prev > 0) => ~last.saved

\* the timestamp the cache holds for a text is the time of its last save
TimestampIsLastSave ==
    \A s \in Speakers : \A phrase \in DOMAIN recent_turns[s] :
        recent_turns[s][phrase] = At(saved_at[s], phrase)

\* C27: a suppressed duplicate does not refresh the timestamp of its text: the
\* cache holds for every text the time of its last save; a text saved at t0
\* is suppressed at t0 + 3, the timestamp staying t0, and it is saved again
\* at t0 + 6.
C27_SuppressedKeepsTimestamp ==
    /\ TimestampIsLastSave
    /\ (Bound /\ GateCalled /\ last.prev # NoEntry) =>
          /\ clock - last.prev = 3 =>
                /\ ~last.saved
                /\ At(recent_turns[last.speaker], last.gate_text) = last.prev
          /\ clock - last.prev = 6 => last.saved

\* the same with the case of C1 (a text saved at clock 0) left out
C27_ExceptSavedAtZero ==
    /\ TimestampIsLastSave
    /\ (Bound /\ GateCalled /\ last.prev > 0) =>
          /\ clock - last.prev = 3 =>
                /\ ~last.saved
                /\ At(recent_turns[last.speaker], last.gate_text) = last.prev
          /\ clock - last.prev = 6 => last.saved

\* the last call handed to the gate a text that is not the text it was given
GateTextNotOwn == GateCalled /\ last.gate_text # last.normalized

\* a non-final user chunk schedules no save, and the only call that hands the
\* held partial to the gate is handle_user_final_text with an empty text
PartialOnlyViaEmptyFinal ==
    /\ (last.op = "chunk" /\ ~last.is_final) =>
          (~last.saved /\ last.gate_text = NoCall)
    /\ GateTextNotOwn =>
          /\ last.op = "final_text"
          /\ last.normalized = <<>>
          /\ last.gate_text = last.partial_before.s

\* C28 as stated: a non-final user chunk schedules no save; the held partial
\* is handed to the gate only by handle_user_final_text with an empty text;
\* and after a final chunk or a non-empty final text no partial is held and
\* the text given to the gate, if any, is the text that arrived.
C28_DiscardedByEveryFinal ==
    /\ PartialOnlyViaEmptyFinal
    /\ (\/ last.op = "chunk" /\ last.is_final
        \/ last.op = "final_text" /\ last.normalized # <<>>) =>
          /\ pending_user_partial = None
          /\ last.gate_text \in {NoCall, last.normalized}

\* C28 amended: a non-final user chunk schedules no save; the held partial is
\* handed to the gate only by handle_user_final_text with an empty text; after
\* a final chunk whose text normalizes to a non-empty string or a non-empty
\* final text no partial is held and the text given to the gate is the text
\* that arrived; a final chunk whose text normalizes to the empty string
\* leaves the held partial in place and gives nothing to the gate.
C28_DiscardedByFinalWithText ==
    /\ PartialOnlyViaEmptyFinal
    /\ (last.op \in {"chunk", "final_text"} /\ last.is_final /\ last.normalized # <<>>) =>
          /\ pending_user_partial = None
          /\ last.gate_text = last.normalized
    /\ (last.op = "chunk" /\ last.is_final /\ last.normalized = <<>>) =>
          /\ pending_user_partial = last.partial_before
          /\ last.gate_text = NoCall

\* C28 witness: a final text arrived while another text was held; the text
\* that arrived was saved and the held partial is gone
C28_Witness ==
    /\ last.op = "final_text" /\ last.partial_before = Str(A)
    /\ last.normalized = AB /\ last.gate_text = AB /\ last.saved
    /\ pending_user_partial = None

\* the last call was handle_assistant_text or handle_conversation_item
AssistantOrItem == last.op \in {"assistant_text", "conversation_item"}

\* C29: handle_assistant_text and handle_conversation_item leave the held
\* user partial as it was, for every input, an item with the role user
\* included; a handle_user_final_text with an empty text that comes next
\* still hands the held partial to the gate, and saves it when the session is
\* bound and the text was not saved in the 5 seconds before.
C29_AssistantPathsKeepPartial ==
    /\ [](AssistantOrItem => pending_user_partial = last.partial_before)
    /\ [][(/\ AssistantOrItem
           /\ Truthy(pending_user_partial)
           /\ last'.op = "final_text"
           /\ last'.normalized = <<>>)
            => /\ last'.gate_text = pending_user_partial.s
               /\ pending_user_partial' = None
               /\ (/\ Bound
                   /\ \/ last'.prev = NoEntry
                      \/ clock - last'.prev >= DEDUPE_WINDOW_SECONDS)
                     => last'.saved]_vars

\* C29 witness: an item with the role user and a text was handled while a
\* partial was held, and the partial is still held
C29_Witness ==
    /\ last.op = "conversation_item" /\ last.speaker = "user"
    /\ last.gate_text = AB
    /\ last.partial_before = Str(A) /\ pending_user_partial = Str(A)

\* the save_turn task that just ran did not store the turn
SaveFailed == last.op = "save_turn" /\ last.outcome # "201"

\* C30: the dedup entry of a text is written when its save is scheduled and
\* the run of the save, whatever its outcome, leaves the caches as they are;
\* when the save of a text has failed, the same text arriving for the same
\* speaker less than 5 seconds after the save was scheduled is suppressed.
C30_RecordedAtScheduling ==
    /\ []((Bound /\ GateCalled /\ last.saved) =>
            At(recent_turns[last.speaker], last.gate_text) = clock)
    /\ [][last'.op = "save_turn" => UNCHANGED recent_turns]_vars
    /\ [][(/\ SaveFailed
           /\ last'.op \in {"chunk", "final_text", "assistant_text", "conversation_item"}
           /\ last'.speaker = last.speaker
           /\ last'.gate_text = last.gate_text
           /\ last'.prev # NoEntry
           /\ clock - last'.prev < DEDUPE_WINDOW_SECONDS)
            => ~last'.saved]_vars

\* the same with the case of C1 (a text saved at clock 0) left out
C30_ExceptSavedAtZero ==
    /\ []((Bound /\ GateCalled /\ last.saved) =>
            At(recent_turns[last.speaker], last.gate_text) = clock)
    /\ [][last'.op = "save_turn" => UNCHANGED recent_turns]_vars
    /\ [][(/\ SaveFailed
           /\ last'.op \in {"chunk", "final_text", "assistant_text", "conversation_item"}
           /\ last'.speaker = last.speaker
           /\ last'.gate_text = last.gate_text
           /\ last'.prev > 0
           /\ clock - last'.prev < DEDUPE_WINDOW_SECONDS)
            => ~last'.saved]_vars

====
